---- MODULE Spec2Model ----
(***************************************************************************)
(* Model of src/app.py: the Flask/SQLAlchemy e-commerce API.               *)
(*                                                                         *)
(* The committed store is the four tables (users, orders, products,        *)
(* order_product) with the constraints the table declarations state:       *)
(* primary keys, users.email UNIQUE, the NOT NULL columns and the foreign  *)
(* keys.  Every request runs in its own session (one transaction).  A      *)
(* handler that reads the store before it writes is two steps: the read    *)
(* step (db.session.get, the lazy loads, the early returns) and the commit *)
(* step (db.session.commit(): flush of the pending statements under the    *)
(* store's constraints, then commit).  An exception raised by commit() is  *)
(* not caught by any handler: the request ends with HTTP 500 and the       *)
(* session is discarded, so nothing of the transaction is committed.       *)
(* Handlers that do not read the store before writing (create_user,        *)
(* create_product) are one step.                                           *)
(*                                                                         *)
(* order_date is left out: no handler branches on it.  Prices are          *)
(* integers.                                                               *)
(***************************************************************************)
EXTENDS Integers, FiniteSets, Bags, TLC

\* ---------------------------------------------------------------- bounds
\* Number of ids the autoincrement counters may hand out per table.
MaxUsers == 2
MaxOrders == 2
MaxProducts == 1

\* The request sessions that may be open (between a handler's read step and
\* its commit) at the same time.
Sessions == {"s1", "s2"}

UserIds == 1..MaxUsers
OrderIds == 1..MaxOrders
ProductIds == 1..MaxProducts

\* Request bodies (request.json) the callers send.
UserInputs ==
    { [name |-> "A", address |-> "X", email |-> "a@x.com"],
      [name |-> "B", address |-> "Y", email |-> "b@x.com"],
      [name |-> "A", address |-> "X"] }

OrderInputs == { [user_id |-> u] : u \in UserIds } \cup { [note |-> "x"] }

ProductInputs ==
    { [product_name |-> "Widget", price |-> 1],
      [product_name |-> "Gadget", price |-> -1],
      [product_name |-> "Widget"] }

\* ---------------------------------------------------------------- state
VARIABLES
    users,          \* table users: id -> [name, address, email]
    orders,         \* table orders: id -> [user_id]
    products,       \* table products: id -> [product_name, price]
    order_product,  \* table order_product: bag of rows <<order_id, product_id>>
    nextUserId,     \* autoincrement counters
    nextOrderId,
    nextProductId,
    txn,            \* bag of the requests in flight between read and commit
    last            \* the response of the last request that finished

store == <<users, orders, products, order_product,
           nextUserId, nextOrderId, nextProductId>>
vars == <<users, orders, products, order_product,
          nextUserId, nextOrderId, nextProductId, txn, last>>

\* ---------------------------------------------------------------- schemas
UserFields == {"name", "address", "email"}
ProductFields == {"product_name", "price"}

\* user_schema.load: every nullable=False column is a required field.
user_schema_valid(input) == UserFields \subseteq DOMAIN input
user_schema_load(input) == [f \in UserFields |-> input[f]]

\* order_schema.load: user_id = fields.Integer(required=True).
order_schema_valid(input) == "user_id" \in DOMAIN input

\* product_schema.load: product_name and price are required.
product_schema_valid(input) == ProductFields \subseteq DOMAIN input
product_schema_load(input) == [f \in ProductFields |-> input[f]]

\* ---------------------------------------------------------------- helpers
Resp(op, status, msg) == [op |-> op, status |-> status, msg |-> msg]

Put(table, id, row) == (id :> row) @@ table
Drop(table, id) == [x \in (DOMAIN table) \ {id} |-> table[x]]

\* A request's session lives from its read step to its commit step.
CanBegin == BagCardinality(txn) < Cardinality(Sessions)
Begin(t) == txn' = txn (+) SetToBag({t})
End(t) == txn' = txn (-) SetToBag({t})
InFlight(op) ==
    BagCardinality([t \in {x \in BagToSet(txn) : x.op = op} |-> txn[t]])

\* order.products (relationship through order_product): the products of order o,
\* one entry per association row.
order_products(o) ==
    [p \in {q \in ProductIds : CopiesIn(<<o, q>>, order_product) > 0}
        |-> CopiesIn(<<o, p>>, order_product)]

\* product.orders: the orders product p is associated with.
product_orders_none(p) == {}
product_orders(p) == {o \in OrderIds : CopiesIn(<<o, p>>, order_product) > 0}

\* user.orders: the orders that reference user u.
user_orders(u) == {o \in DOMAIN orders : orders[o].user_id = u}

\* ---------------------------------------------------------------- store constraints
\* users.email is UNIQUE: a row other than `self` already holds `email`.
UniqueEmailViolatedOff(self, email) == FALSE
UniqueEmailViolated(self, email) ==
    \E u \in (DOMAIN users) \ {self} : users[u].email = email

\* orders.user_id REFERENCES users.id, on insert of an order.
OrderUserFkViolatedOff(u) == FALSE
OrderUserFkViolated(u) == u \notin DOMAIN users

\* order_product PRIMARY KEY (order_id, product_id), on insert of a row.
AssocPkViolatedOff(o, p) == FALSE
AssocPkViolated(o, p) == CopiesIn(<<o, p>>, order_product) > 0

\* order_product.order_id / product_id REFERENCES orders.id / products.id, on insert.
AssocFkViolated(o, p) == o \notin DOMAIN orders \/ p \notin DOMAIN products

\* order_product.product_id REFERENCES products.id, on delete of a product.
ProductReferencedOff(p) == FALSE
ProductReferenced(p) == \E o \in OrderIds : CopiesIn(<<o, p>>, order_product) > 0

\* orders.user_id REFERENCES users.id and is NOT NULL, on delete of a user: the
\* unit of work first tries to set user_id = NULL on the user's orders (no
\* cascade on the relationship), which NOT NULL refuses; the DELETE of a user
\* still referenced is refused by the foreign key.
UserReferencedOff(u) == FALSE
UserReferenced(u) == \E o \in DOMAIN orders : orders[o].user_id = u

\* ---------------------------------------------------------------- users
Init ==
    /\ users = <<>>
    /\ orders = <<>>
    /\ products = <<>>
    /\ order_product = EmptyBag
    /\ nextUserId = 1
    /\ nextOrderId = 1
    /\ nextProductId = 1
    /\ txn = EmptyBag
    /\ last = Resp("none", 0, "")

\* POST /users
create_user(input) ==
    /\ (user_schema_valid(input) /\ ~UniqueEmailViolated(0, input.email))
          => nextUserId <= MaxUsers
    /\ UNCHANGED <<orders, products, order_product, nextOrderId, nextProductId, txn>>
    /\ IF ~user_schema_valid(input)
       THEN /\ last' = Resp("create_user", 400, "ValidationError")
            /\ UNCHANGED <<users, nextUserId>>
       ELSE IF UniqueEmailViolated(0, input.email)
       THEN /\ last' = Resp("create_user", 500, "IntegrityError")
            /\ UNCHANGED <<users, nextUserId>>
       ELSE /\ users' = Put(users, nextUserId, user_schema_load(input))
            /\ nextUserId' = nextUserId + 1
            /\ last' = Resp("create_user", 201, "user")

\* PUT /users/<id>: read step.
update_user_read(id, input) ==
    /\ CanBegin
    /\ UNCHANGED store
    /\ IF id \notin DOMAIN users
       THEN /\ last' = Resp("update_user", 400, "Invalid user id")
            /\ UNCHANGED txn
       ELSE IF ~user_schema_valid(input)
       THEN /\ last' = Resp("update_user", 400, "ValidationError")
            /\ UNCHANGED txn
       ELSE /\ Begin([op |-> "update_user", id |-> id,
                         changed |-> {f \in UserFields : users[id][f] # input[f]},
                         new |-> user_schema_load(input)])
            /\ UNCHANGED last

\* update_user_commit as it would be if the attributes were written one by one
\* and the transaction of a failed request were committed instead of discarded:
\* name and address are stored although the email is refused.
update_user_commit_partial(t) ==
    /\ t \in BagToSet(txn)
    /\ t.op = "update_user"
    /\ End(t)
    /\ UNCHANGED <<orders, products, order_product,
                   nextUserId, nextOrderId, nextProductId>>
    /\ IF t.changed = {}
       THEN /\ last' = Resp("update_user", 200, "user")
            /\ UNCHANGED users
       ELSE IF t.id \notin DOMAIN users
       THEN /\ last' = Resp("update_user", 500, "StaleDataError")
            /\ UNCHANGED users
       ELSE IF "email" \in t.changed /\ UniqueEmailViolated(t.id, t.new.email)
       THEN /\ last' = Resp("update_user", 500, "IntegrityError")
            /\ users' = [users EXCEPT ![t.id] =
                            [f \in UserFields |->
                                IF f \in t.changed \ {"email"}
                                THEN t.new[f] ELSE @[f]]]
       ELSE /\ users' = [users EXCEPT ![t.id] =
                            [f \in UserFields |->
                                IF f \in t.changed THEN t.new[f] ELSE @[f]]]
            /\ last' = Resp("update_user", 200, "user")

\* PUT /users/<id>: db.session.commit().  The flush issues one UPDATE of the
\* attributes whose value changed, WHERE id = <id>; none when nothing changed.
update_user_commit(t) ==
    /\ t \in BagToSet(txn)
    /\ t.op = "update_user"
    /\ End(t)
    /\ UNCHANGED <<orders, products, order_product,
                   nextUserId, nextOrderId, nextProductId>>
    /\ LET id == t.id
           changed == t.changed
           new == t.new
       IN  IF changed = {}
           THEN /\ last' = Resp("update_user", 200, "user")
                /\ UNCHANGED users
           ELSE IF id \notin DOMAIN users
           THEN /\ last' = Resp("update_user", 500, "StaleDataError")
                /\ UNCHANGED users
           ELSE IF "email" \in changed /\ UniqueEmailViolated(id, new.email)
           THEN /\ last' = Resp("update_user", 500, "IntegrityError")
                /\ UNCHANGED users
           ELSE /\ users' = [users EXCEPT ![id] =
                                [f \in UserFields |->
                                    IF f \in changed THEN new[f] ELSE @[f]]]
                /\ last' = Resp("update_user", 200, "user")

\* DELETE /users/<id>: read step.
delete_user_read(id) ==
    /\ CanBegin
    /\ UNCHANGED store
    /\ IF id \notin DOMAIN users
       THEN /\ last' = Resp("delete_user", 400, "Invalid user id")
            /\ UNCHANGED txn
       ELSE /\ Begin([op |-> "delete_user", id |-> id])
            /\ UNCHANGED last

\* DELETE /users/<id>: db.session.delete(user); db.session.commit().  A DELETE
\* that matches no row (the user is already gone) is only a warning.
delete_user_commit(t) ==
    /\ t \in BagToSet(txn)
    /\ t.op = "delete_user"
    /\ End(t)
    /\ UNCHANGED <<orders, products, order_product,
                   nextUserId, nextOrderId, nextProductId>>
    /\ LET id == t.id
       IN  IF id \notin DOMAIN users
           THEN /\ last' = Resp("delete_user", 200, "Successfully deleted user")
                /\ UNCHANGED users
           ELSE IF UserReferenced(id)
           THEN /\ last' = Resp("delete_user", 500, "IntegrityError")
                /\ UNCHANGED users
           ELSE /\ users' = Drop(users, id)
                /\ last' = Resp("delete_user", 200, "Successfully deleted user")

\* ---------------------------------------------------------------- orders
\* POST /orders: read step.
create_order_read(input) ==
    /\ CanBegin
    /\ (order_schema_valid(input) /\ input.user_id \in DOMAIN users)
          => nextOrderId + InFlight("create_order") <= MaxOrders
    /\ UNCHANGED store
    /\ IF ~order_schema_valid(input)
       THEN /\ last' = Resp("create_order", 400, "ValidationError")
            /\ UNCHANGED txn
       ELSE IF input.user_id \notin DOMAIN users
       THEN /\ last' = Resp("create_order", 400, "Invalid user_id")
            /\ UNCHANGED txn
       ELSE /\ Begin([op |-> "create_order", user_id |-> input.user_id])
            /\ UNCHANGED last

\* POST /orders: db.session.add(new_order); db.session.commit().
create_order_commit(t) ==
    /\ t \in BagToSet(txn)
    /\ t.op = "create_order"
    /\ End(t)
    /\ UNCHANGED <<users, products, order_product, nextUserId, nextProductId>>
    /\ IF OrderUserFkViolated(t.user_id)
       THEN /\ last' = Resp("create_order", 500, "IntegrityError")
            /\ UNCHANGED <<orders, nextOrderId>>
       ELSE /\ orders' = Put(orders, nextOrderId, [user_id |-> t.user_id])
            /\ nextOrderId' = nextOrderId + 1
            /\ last' = Resp("create_order", 201, "order")

\* GET /orders/<order_id>/products
get_products_for_order(o) ==
    /\ UNCHANGED <<store, txn>>
    /\ IF o \notin DOMAIN orders
       THEN last' = Resp("get_products_for_order", 404, "Order not found")
       ELSE IF DOMAIN order_products(o) = {}
       THEN last' = Resp("get_products_for_order", 404,
                         "No products found for this order")
       ELSE last' = Resp("get_products_for_order", 200, "products")

\* PUT /orders/<order_id>/add_product/<product_id>: read step.
add_prod_to_order_read(o, p) ==
    /\ CanBegin
    /\ UNCHANGED store
    /\ IF o \notin DOMAIN orders
       THEN /\ last' = Resp("add_prod_to_order", 400, "Invalid order ID")
            /\ UNCHANGED txn
       ELSE IF p \notin DOMAIN products
       THEN /\ last' = Resp("add_prod_to_order", 400, "Invalid product ID")
            /\ UNCHANGED txn
       ELSE IF p \in DOMAIN order_products(o)
       THEN /\ last' = Resp("add_prod_to_order", 400,
                            "Product already exists in the order")
            /\ UNCHANGED txn
       ELSE /\ Begin([op |-> "add_prod_to_order", o |-> o, p |-> p])
            /\ UNCHANGED last

\* PUT .../add_product/...: order.products.append(product); db.session.commit().
\* The flush inserts the row (order_id, product_id) into order_product.
add_prod_to_order_commit(t) ==
    /\ t \in BagToSet(txn)
    /\ t.op = "add_prod_to_order"
    /\ End(t)
    /\ UNCHANGED <<users, orders, products,
                   nextUserId, nextOrderId, nextProductId>>
    /\ LET o == t.o
           p == t.p
       IN  IF AssocPkViolated(o, p) \/ AssocFkViolated(o, p)
           THEN /\ last' = Resp("add_prod_to_order", 500, "IntegrityError")
                /\ UNCHANGED order_product
           ELSE /\ order_product' = order_product (+) SetToBag({<<o, p>>})
                /\ last' = Resp("add_prod_to_order", 200, "order")

\* DELETE /orders/<order_id>/remove_product/<product_id>: read step.
remove_prod_from_order_read(o, p) ==
    /\ CanBegin
    /\ UNCHANGED store
    /\ IF o \notin DOMAIN orders
       THEN /\ last' = Resp("remove_prod_from_order", 400, "Invalid order ID")
            /\ UNCHANGED txn
       ELSE IF p \notin DOMAIN products
       THEN /\ last' = Resp("remove_prod_from_order", 400, "Invalid product ID")
            /\ UNCHANGED txn
       ELSE IF p \notin DOMAIN order_products(o)
       THEN /\ last' = Resp("remove_prod_from_order", 404,
                            "Product not found in the order")
            /\ UNCHANGED txn
       ELSE /\ Begin([op |-> "remove_prod_from_order", o |-> o, p |-> p])
            /\ UNCHANGED last

\* DELETE FROM order_product WHERE order_id = o AND product_id = p.
DeleteAssocAnyOrder(rows, o, p) ==
    [r \in {x \in BagToSet(rows) : x[2] # p} |-> rows[r]]
DeleteAssoc(rows, o, p) ==
    [r \in BagToSet(rows) \ {<<o, p>>} |-> rows[r]]

\* DELETE .../remove_product/...: order.products.remove(product);
\* db.session.commit().  A DELETE on the association table that matches fewer
\* rows than expected raises StaleDataError.
remove_prod_from_order_commit(t) ==
    /\ t \in BagToSet(txn)
    /\ t.op = "remove_prod_from_order"
    /\ End(t)
    /\ UNCHANGED <<users, orders, products,
                   nextUserId, nextOrderId, nextProductId>>
    /\ LET o == t.o
           p == t.p
       IN  IF CopiesIn(<<o, p>>, order_product) = 0
           THEN /\ last' = Resp("remove_prod_from_order", 500, "StaleDataError")
                /\ UNCHANGED order_product
           ELSE /\ order_product' = DeleteAssoc(order_product, o, p)
                /\ last' = Resp("remove_prod_from_order", 200, "removed")

\* ---------------------------------------------------------------- products
\* POST /products
create_product(input) ==
    /\ product_schema_valid(input) => nextProductId <= MaxProducts
    /\ UNCHANGED <<users, orders, order_product, nextUserId, nextOrderId, txn>>
    /\ IF ~product_schema_valid(input)
       THEN /\ last' = Resp("create_product", 400, "ValidationError")
            /\ UNCHANGED <<products, nextProductId>>
       ELSE /\ products' = Put(products, nextProductId, product_schema_load(input))
            /\ nextProductId' = nextProductId + 1
            /\ last' = Resp("create_product", 201, "product")

\* PUT /products/<id>: read step.
update_product_read(id, input) ==
    /\ CanBegin
    /\ UNCHANGED store
    /\ IF id \notin DOMAIN products
       THEN /\ last' = Resp("update_product", 404, "Product not found")
            /\ UNCHANGED txn
       ELSE IF ~product_schema_valid(input)
       THEN /\ last' = Resp("update_product", 400, "ValidationError")
            /\ UNCHANGED txn
       ELSE /\ Begin([op |-> "update_product", id |-> id,
                         changed |-> {f \in ProductFields : products[id][f] # input[f]},
                         new |-> product_schema_load(input)])
            /\ UNCHANGED last

\* PUT /products/<id>: db.session.commit().
update_product_commit(t) ==
    /\ t \in BagToSet(txn)
    /\ t.op = "update_product"
    /\ End(t)
    /\ UNCHANGED <<users, orders, order_product,
                   nextUserId, nextOrderId, nextProductId>>
    /\ LET id == t.id
           changed == t.changed
           new == t.new
       IN  IF changed = {}
           THEN /\ last' = Resp("update_product", 200, "product")
                /\ UNCHANGED products
           ELSE IF id \notin DOMAIN products
           THEN /\ last' = Resp("update_product", 500, "StaleDataError")
                /\ UNCHANGED products
           ELSE /\ products' = [products EXCEPT ![id] =
                                   [f \in ProductFields |->
                                       IF f \in changed THEN new[f] ELSE @[f]]]
                /\ last' = Resp("update_product", 200, "product")

\* DELETE /products/<id>: read step.
delete_product_read(id) ==
    /\ CanBegin
    /\ UNCHANGED store
    /\ IF id \notin DOMAIN products
       THEN /\ last' = Resp("delete_product", 404, "Product not found")
            /\ UNCHANGED txn
       ELSE IF product_orders(id) # {}
       THEN /\ last' = Resp("delete_product", 400,
                            "Cannot delete product because it is associated with orders")
            /\ UNCHANGED txn
       ELSE /\ Begin([op |-> "delete_product", id |-> id])
            /\ UNCHANGED last

\* DELETE /products/<id>: db.session.delete(product); db.session.commit().
\* product.orders was loaded empty by the read step, so the flush deletes no
\* association row; the DELETE of the product is subject to the foreign key.
delete_product_commit(t) ==
    /\ t \in BagToSet(txn)
    /\ t.op = "delete_product"
    /\ End(t)
    /\ UNCHANGED <<users, orders, order_product,
                   nextUserId, nextOrderId, nextProductId>>
    /\ LET id == t.id
       IN  IF id \notin DOMAIN products
           THEN /\ last' = Resp("delete_product", 200, "Successfully deleted product")
                /\ UNCHANGED products
           ELSE IF ProductReferenced(id)
           THEN /\ last' = Resp("delete_product", 500, "IntegrityError")
                /\ UNCHANGED products
           ELSE /\ products' = Drop(products, id)
                /\ last' = Resp("delete_product", 200, "Successfully deleted product")

\* ---------------------------------------------------------------- specification
Next ==
    \/ \E input \in UserInputs : create_user(input)
    \/ \E id \in UserIds, input \in UserInputs :
          update_user_read(id, input)
    \/ \E t \in BagToSet(txn) : update_user_commit(t)
    \/ \E id \in UserIds : delete_user_read(id)
    \/ \E t \in BagToSet(txn) : delete_user_commit(t)
    \/ \E input \in OrderInputs : create_order_read(input)
    \/ \E t \in BagToSet(txn) : create_order_commit(t)
    \/ \E o \in OrderIds : get_products_for_order(o)
    \/ \E o \in OrderIds, p \in ProductIds :
          add_prod_to_order_read(o, p)
    \/ \E t \in BagToSet(txn) : add_prod_to_order_commit(t)
    \/ \E o \in OrderIds, p \in ProductIds :
          remove_prod_from_order_read(o, p)
    \/ \E t \in BagToSet(txn) : remove_prod_from_order_commit(t)
    \/ \E input \in ProductInputs : create_product(input)
    \/ \E id \in ProductIds, input \in ProductInputs :
          update_product_read(id, input)
    \/ \E t \in BagToSet(txn) : update_product_commit(t)
    \/ \E id \in ProductIds : delete_product_read(id)
    \/ \E t \in BagToSet(txn) : delete_product_commit(t)

Spec == Init /\ [][Next]_vars

\* The customer side on its own: the handlers that touch users and orders.
NextUsers ==
    \/ \E input \in UserInputs : create_user(input)
    \/ \E id \in UserIds, input \in UserInputs :
          update_user_read(id, input)
    \/ \E t \in BagToSet(txn) : update_user_commit(t)
    \/ \E id \in UserIds : delete_user_read(id)
    \/ \E t \in BagToSet(txn) : delete_user_commit(t)
    \/ \E input \in OrderInputs : create_order_read(input)
    \/ \E t \in BagToSet(txn) : create_order_commit(t)

SpecUsers == Init /\ [][NextUsers]_vars

\* The catalog side on its own: the store after one customer has placed
\* MaxOrders orders, then the handlers that touch products and order_product.
InitCatalog ==
    /\ users = (1 :> [name |-> "A", address |-> "X", email |-> "a@x.com"])
    /\ orders = [o \in OrderIds |-> [user_id |-> 1]]
    /\ products = <<>>
    /\ order_product = EmptyBag
    /\ nextUserId = 2
    /\ nextOrderId = MaxOrders + 1
    /\ nextProductId = 1
    /\ txn = EmptyBag
    /\ last = Resp("create_order", 201, "order")

NextCatalog ==
    \/ \E o \in OrderIds : get_products_for_order(o)
    \/ \E o \in OrderIds, p \in ProductIds :
          add_prod_to_order_read(o, p)
    \/ \E t \in BagToSet(txn) : add_prod_to_order_commit(t)
    \/ \E o \in OrderIds, p \in ProductIds :
          remove_prod_from_order_read(o, p)
    \/ \E t \in BagToSet(txn) : remove_prod_from_order_commit(t)
    \/ \E input \in ProductInputs : create_product(input)
    \/ \E id \in ProductIds, input \in ProductInputs :
          update_product_read(id, input)
    \/ \E t \in BagToSet(txn) : update_product_commit(t)
    \/ \E id \in ProductIds : delete_product_read(id)
    \/ \E t \in BagToSet(txn) : delete_product_commit(t)

SpecCatalog == InitCatalog /\ [][NextCatalog]_vars

\* ---------------------------------------------------------------- properties
\* The entities and associations the store holds.
Committed == <<users, orders, products, order_product>>

Associated(o, p) == CopiesIn(<<o, p>>, order_product) > 0
ItemAssociated(p) == \E o \in OrderIds : Associated(o, p)
CustomerHasOrders(u) == \E o \in DOMAIN orders : orders[o].user_id = u
EmailHeld(email) == \E u \in DOMAIN users : users[u].email = email

\* C1: in every reachable state, no two distinct customers have the same
\* email, whatever the interleaving of create_user, update_user, delete_user.
C1_EmailUnique ==
    \A u1, u2 \in DOMAIN users :
        u1 # u2 => users[u1].email # users[u2].email

C1_Witness ==
    /\ Cardinality(DOMAIN users) = 2
    /\ last = Resp("update_user", 500, "IntegrityError")

\* C2: create_user with an email an existing customer holds ends with a
\* structured error response (not an unhandled store failure), creates no
\* customer and leaves the existing customers unchanged.
C2_DuplicateEmailIsStructuredConflict ==
    [][\A input \in UserInputs :
          (/\ user_schema_valid(input)
           /\ EmailHeld(input.email)
           /\ create_user(input))
          => (/\ last'.op = "create_user"
              /\ last'.status >= 400
              /\ last'.status < 500
              /\ users' = users)]_vars

\* C3: create_order with a user_id that matches no customer answers
\* 400 "Invalid user_id" and leaves the orders unchanged; and every order that
\* is persisted references a customer that exists when the order is inserted.
C3_OrderNeedsCustomer ==
    [][/\ \A input \in OrderInputs :
            (/\ order_schema_valid(input)
             /\ input.user_id \notin DOMAIN users
             /\ create_order_read(input))
            => (/\ last' = Resp("create_order", 400, "Invalid user_id")
                /\ orders' = orders
                /\ txn' = txn)
       /\ \A o \in (DOMAIN orders') \ (DOMAIN orders) :
            /\ orders'[o].user_id \in DOMAIN users
            /\ orders'[o].user_id \in DOMAIN users']_vars

C3_Witness ==
    /\ last = Resp("create_order", 400, "Invalid user_id")
    /\ DOMAIN orders # {}

\* C4: add_prod_to_order(o, p) while (o, p) is associated answers 400 "Product
\* already exists in the order" and leaves the associations unchanged; in every
\* reachable state each pair (o, p) has at most one association row and
\* order.products lists p once.
C4_AssociationOnce ==
    /\ [](\A o \in OrderIds, p \in ProductIds :
            /\ CopiesIn(<<o, p>>, order_product) <= 1
            /\ p \in DOMAIN order_products(o) => order_products(o)[p] = 1)
    /\ [][\A o \in OrderIds, p \in ProductIds :
            (/\ o \in DOMAIN orders
             /\ p \in DOMAIN products
             /\ Associated(o, p)
             /\ add_prod_to_order_read(o, p))
            => (/\ last' = Resp("add_prod_to_order", 400,
                                "Product already exists in the order")
                /\ order_product' = order_product
                /\ txn' = txn)]_vars

C4_Witness ==
    /\ last = Resp("add_prod_to_order", 400, "Product already exists in the order")
    /\ Associated(1, 1)

\* C5: delete_product(i) on an existing product that is associated with an
\* order answers 400 "Cannot delete product because it is associated with
\* orders" and changes neither the product nor the associations; on an existing
\* product with no association left the request goes through to its commit,
\* and a commit that finds the product unassociated deletes it.
C5_DeleteGuardedByAssociations ==
    [][/\ \A id \in ProductIds :
            (/\ id \in DOMAIN products
             /\ ItemAssociated(id)
             /\ delete_product_read(id))
            => (/\ last' = Resp("delete_product", 400,
                    "Cannot delete product because it is associated with orders")
                /\ products' = products
                /\ order_product' = order_product
                /\ txn' = txn)
       /\ \A id \in ProductIds :
            (/\ id \in DOMAIN products
             /\ ~ItemAssociated(id)
             /\ delete_product_read(id))
            => (/\ CopiesIn([op |-> "delete_product", id |-> id], txn')
                     = CopiesIn([op |-> "delete_product", id |-> id], txn) + 1
                /\ last' = last)
       /\ \A t \in BagToSet(txn) :
            (/\ t.op = "delete_product"
             /\ t.id \in DOMAIN products
             /\ ~ItemAssociated(t.id)
             /\ delete_product_commit(t))
            => (/\ last' = Resp("delete_product", 200, "Successfully deleted product")
                /\ t.id \notin DOMAIN products'
                /\ order_product' = order_product)]_vars

C5_Witness ==
    /\ last = Resp("delete_product", 400,
                   "Cannot delete product because it is associated with orders")
    /\ 1 \in DOMAIN products
    /\ ~Associated(1, 1)
    /\ Associated(2, 1)

\* C6: a remove_prod_from_order(o, p) that commits while (o, p) is associated
\* succeeds and leaves (o, p) absent and every other association unchanged;
\* remove_prod_from_order(o, p) on an existing order and product that are not
\* associated answers 404 "Product not found in the order" and changes nothing.
C6_RemoveAssociation ==
    [][/\ \A t \in BagToSet(txn) :
            (/\ t.op = "remove_prod_from_order"
             /\ Associated(t.o, t.p)
             /\ remove_prod_from_order_commit(t))
            => (/\ last' = Resp("remove_prod_from_order", 200, "removed")
                /\ ~Associated(t.o, t.p)'
                /\ \A o \in OrderIds, p \in ProductIds :
                      <<o, p>> # <<t.o, t.p>> =>
                          CopiesIn(<<o, p>>, order_product')
                            = CopiesIn(<<o, p>>, order_product))
       /\ \A o \in OrderIds, p \in ProductIds :
            (/\ o \in DOMAIN orders
             /\ p \in DOMAIN products
             /\ ~Associated(o, p)
             /\ remove_prod_from_order_read(o, p))
            => (/\ last' = Resp("remove_prod_from_order", 404,
                                "Product not found in the order")
                /\ Committed' = Committed
                /\ txn' = txn)]_vars

C6_Witness ==
    /\ last = Resp("remove_prod_from_order", 200, "removed")
    /\ ~Associated(1, 1)
    /\ Associated(2, 1)

\* C7: a step that ends a request with an error response (status 400 and up:
\* validation failure, not found, conflict, or a store failure at commit)
\* leaves customers, orders, products and associations as they were.
C7_ErrorsChangeNothing ==
    [][last'.status >= 400 => Committed' = Committed]_vars

C7_Witness ==
    /\ last = Resp("add_prod_to_order", 500, "IntegrityError")
    /\ DOMAIN users # {}

C9_PriceNeverNegative ==
    \A p \in DOMAIN products : products[p].price >= 0

\* C10: in every reachable state, under every interleaving of the read and
\* commit steps of add_prod_to_order and delete_product, every association row
\* references an order and a product that exist.
C10_NoDanglingAssociation ==
    \A row \in BagToSet(order_product) :
        /\ row[1] \in DOMAIN orders
        /\ row[2] \in DOMAIN products

C10_Witness ==
    /\ last = Resp("delete_product", 500, "IntegrityError")
    /\ Associated(1, 1)

====
